---- MODULE Spec2Model ----
(***************************************************************************)
(* A model of the MPU-6050 I2C driver, src/mpu6050/mpu6050.py.             *)
(*                                                                         *)
(* The state is the register file of the device behind the bus            *)
(* (smbus read_byte_data / write_byte_data), the outcome of the last      *)
(* driver call, and, for the concurrency study, the position and local    *)
(* variables of two callers that share the handle.                        *)
(*                                                                         *)
(* Python values are modelled as tagged tuples: <<"None">>, <<"int", n>>, *)
(* <<"bool", b>>, <<"dict", x, y, z>>.  A float obtained by dividing a raw*)
(* word by a scale modifier is the reduced fraction <<num, den, unit>>;   *)
(* unit "ms2" stands for the further multiplication by GRAVITIY_MS2.      *)
(***************************************************************************)
EXTENDS Integers, Sequences, FiniteSets

VARIABLES
    pc,          \* "off": powered up, no handle yet; "ready": handle constructed
    regs,        \* the device's register file, register -> byte
    call,        \* the last driver call: [op, args, ret, err]
    range_set,   \* history: argument of the last set_accel_range, -1 if the
                 \* ACCEL_CONFIG register was written otherwise (or not yet)
    sleep_req,   \* history: "unset", "sleep" or "wake": last set_sleep_enabled
    cpc,         \* callers sharing the handle: caller -> position
    creq,        \* caller -> the read-modify-write request it runs
    cdata,       \* caller -> the byte it read (local variable data / b)
    order        \* the bus transactions of the callers, in order

vars == <<pc, regs, call, range_set, sleep_req, cpc, creq, cdata, order>>

(***************************************************************************)
(* Class constants (mpu6050.py lines 62-120)                               *)
(***************************************************************************)
ACCEL_SCALE_MODIFIER_2G == 16384
ACCEL_SCALE_MODIFIER_4G == 8192
ACCEL_SCALE_MODIFIER_8G == 4096
ACCEL_SCALE_MODIFIER_16G == 2048

ACCEL_RANGE_2G == 0
ACCEL_RANGE_4G == 8
ACCEL_RANGE_8G == 16
ACCEL_RANGE_16G == 24

PWR_MGMT_1 == 107
PWR1_DEVICE_RESET_BIT == 7
PWR1_DEVICE_SLEEP_BIT == 6
PWR1_CYCLE_BIT == 5
PWR1_TEMP_DIS_BIT == 3
PWR1_CLKSEL_BIT == 2
PWR1_CLKSEL_LENGTH == 3

ACCEL_XOUT0 == 59
ACCEL_YOUT0 == 61
ACCEL_ZOUT0 == 63
ACCEL_CONFIG == 28

\* the bus address the handle is constructed with (mpu6050(0x68))
address == 104

\* the attribute names the class defines; the power-management methods also
\* use names it does not define
ClassAttributes ==
    { "address", "bus", "PWR_MGMT_1", "PWR_MGMT_2",
      "PWR1_DEVICE_RESET_BIT", "PWR1_DEVICE_SLEEP_BIT", "PWR1_CYCLE_BIT",
      "PWR1_TEMP_DIS_BIT", "PWR1_CLKSEL_BIT", "PWR1_CLKSEL_LENGTH" }

(***************************************************************************)
(* Bounds of the model                                                     *)
(***************************************************************************)
\* how many of the sample bytes the output registers are drawn from
MaxSamples == 3
\* largest data written to a bit-field, besides the all-ones value
MaxData == 2
\* longest bit-field a racing caller writes
MaxFieldLen == 2

Byte == 0..255
Registers == {ACCEL_CONFIG, address, PWR_MGMT_1}
                \cup (ACCEL_XOUT0 .. (ACCEL_ZOUT0 + 1))

\* the first MaxSamples entries of a list of samples
Samples(seq) ==
    { seq[i] : i \in 1 .. (IF MaxSamples < Len(seq) THEN MaxSamples ELSE Len(seq)) }

\* contents of a register, and of a register pair <<high, low>>
SampleBytes == Samples(<<0, 255, 1, 128, 165, 90, 127, 8>>)
SampleWords ==
    Samples(<<(<<0, 0>>), (<<255, 255>>), (<<64, 0>>), (<<128, 0>>),
              (<<127, 255>>), (<<0, 1>>), (<<192, 0>>)>>)

(***************************************************************************)
(* Python values                                                           *)
(***************************************************************************)
None == <<"None">>
PyInt(n) == <<"int", n>>
PyBool(b) == <<"bool", b>>

NoCall == [op |-> "none", args |-> <<>>, ret |-> None, err |-> "none"]
Returned(op, args, ret) == [op |-> op, args |-> args, ret |-> ret, err |-> "none"]
Raised(op, args, err) == [op |-> op, args |-> args, ret |-> None, err |-> err]

\* a read-modify-write request of a caller: write_i2c_bit(register, hi, value)
\* or write_i2c_bits(register, hi, len, data), on register PWR_MGMT_1
NoReq == [op |-> "none", hi |-> 0, len |-> 0, data |-> 0, value |-> FALSE]
BitReq(bitNum, value) ==
    [op |-> "write_i2c_bit", hi |-> bitNum, len |-> 1, data |-> 0, value |-> value]
BitsReq(bitStart, length, data) ==
    [op |-> "write_i2c_bits", hi |-> bitStart, len |-> length, data |-> data,
     value |-> FALSE]

(***************************************************************************)
(* Integer bit operations on bytes, as Python's <<, >>, &, |, ~ act there  *)
(***************************************************************************)
Pow2(n) == <<1, 2, 4, 8, 16, 32, 64, 128, 256, 512, 1024, 2048, 4096, 8192,
             16384, 32768, 65536>>[n + 1]

Shl(x, n) == x * Pow2(n)
Shr(x, n) == x \div Pow2(n)
Bit(x, i) == (x \div Pow2(i)) % 2

\* x & y, x | y and x & ~y for non-negative x and y
RECURSIVE BitAnd(_, _)
BitAnd(x, y) ==
    IF x = 0 \/ y = 0 THEN 0
    ELSE (x % 2) * (y % 2) + 2 * BitAnd(x \div 2, y \div 2)

RECURSIVE BitOr(_, _)
BitOr(x, y) ==
    IF x = 0 THEN y
    ELSE IF y = 0 THEN x
    ELSE (IF (x % 2) + (y % 2) > 0 THEN 1 ELSE 0) + 2 * BitOr(x \div 2, y \div 2)

RECURSIVE BitAndNot(_, _)
BitAndNot(x, y) ==
    IF x = 0 THEN 0
    ELSE IF y = 0 THEN x
    ELSE (x % 2) * (1 - (y % 2)) + 2 * BitAndNot(x \div 2, y \div 2)

(***************************************************************************)
(* The bus: smbus read_byte_data / write_byte_data on the register file    *)
(***************************************************************************)
read_byte_data(rg, register) == rg[register]
write_byte_data(rg, register, value) == [rg EXCEPT ![register] = value]

\* read_i2c_byte (lines 131-137)
read_i2c_byte(rg, register) == read_byte_data(rg, register)

\* read_i2c_bit (lines 139-147): data & (1 << bitNum)
read_i2c_bit(rg, register, bitNum) ==
    BitAnd(read_i2c_byte(rg, register), Shl(1, bitNum))

\* read_i2c_word with the comparison strict: 0x8000 itself is left unsigned
read_i2c_word_strict(rg, register) ==
    LET high == read_byte_data(rg, register)
        low == read_byte_data(rg, register + 1)
        value == Shl(high, 8) + low
    IN  IF value > 32768 THEN -((65535 - value) + 1) ELSE value

\* read_i2c_word (lines 164-179)
read_i2c_word(rg, register) ==
    LET high == read_byte_data(rg, register)
        low == read_byte_data(rg, register + 1)
        value == Shl(high, 8) + low
    IN  IF value >= 32768 THEN -((65535 - value) + 1) ELSE value

(***************************************************************************)
(* Driver calls.  Each leaves its outcome in call.                         *)
(***************************************************************************)
Idle == /\ cpc = [c \in {1, 2} |-> "idle"]
        /\ UNCHANGED <<cpc, creq, cdata, order>>

\* a call that leaves every register as it is
Reads == UNCHANGED <<pc, regs, range_set, sleep_req>>

read_i2c_word_call(register) ==
    /\ pc = "ready" /\ Idle /\ Reads
    /\ call' = Returned("read_i2c_word", <<register>>,
                        PyInt(read_i2c_word(regs, register)))

\* get_accel_x (lines 290-295)
get_accel_x ==
    /\ pc = "ready" /\ Idle /\ Reads
    /\ call' = Returned("get_accel_x", <<>>, PyInt(read_i2c_word(regs, ACCEL_XOUT0)))

(***************************************************************************)
(* Word reads over every content of a register pair                        *)
(***************************************************************************)
ZeroRegs == [r \in Registers |-> 0]

InitCommon ==
    /\ call = NoCall
    /\ range_set = -1
    /\ sleep_req = "unset"
    /\ cpc = [c \in {1, 2} |-> "idle"]
    /\ creq = [c \in {1, 2} |-> NoReq]
    /\ cdata = [c \in {1, 2} |-> 0]
    /\ order = <<>>

InitWord ==
    /\ pc = "ready"
    /\ \E high \in Byte, low \in Byte :
         regs = [ZeroRegs EXCEPT ![ACCEL_XOUT0] = high, ![ACCEL_XOUT0 + 1] = low]
    /\ InitCommon

NextWord ==
    \/ read_i2c_word_call(ACCEL_XOUT0)
    \/ get_accel_x

SpecWord == InitWord /\ [][NextWord]_vars

\* C1: read_i2c_word(r) of the bytes (high, low) at r, r+1 is
\* v = high*256 + low when v < 0x8000 and v - 65536 otherwise, always within
\* -32768..32767: the two's-complement reading of the 16-bit pattern.
C1_SignedWord ==
    call.op = "read_i2c_word" =>
        LET r == call.args[1]
            v == regs[r] * 256 + regs[r + 1]
        IN  /\ call.err = "none"
            /\ call.ret[1] = "int"
            /\ call.ret[2] = (IF v < 32768 THEN v ELSE v - 65536)
            /\ call.ret[2] \in -32768 .. 32767
            /\ (call.ret[2] - v) % 65536 = 0

\* a word read of the boundary pattern 0x8000 has returned -32768
C1_Witness ==
    /\ call.op = "read_i2c_word"
    /\ regs[ACCEL_XOUT0] = 128 /\ regs[ACCEL_XOUT0 + 1] = 0
    /\ call.ret = PyInt(-32768)

(***************************************************************************)
(* Accelerometer range and samples                                         *)
(***************************************************************************)
RECURSIVE GCD(_, _)
GCD(a, b) == IF b = 0 THEN a ELSE GCD(b, a % b)

\* the float raw / modifier (two integers, the modifier a power of two, so the
\* quotient is exact), times GRAVITIY_MS2 when unit is "ms2"
Frac(raw, modifier, unit) ==
    LET d == GCD(IF raw < 0 THEN -raw ELSE raw, modifier)
    IN  <<raw \div d, modifier \div d, unit>>

\* set_accel_range with the two bus writes in the wrong order
set_accel_range_swapped(rg, accel_range) ==
    write_byte_data(write_byte_data(rg, ACCEL_CONFIG, accel_range), ACCEL_CONFIG, 0)

\* set_accel_range (lines 216-226): the register file after its two writes
set_accel_range_regs(rg, accel_range) ==
    write_byte_data(write_byte_data(rg, ACCEL_CONFIG, 0), ACCEL_CONFIG, accel_range)

\* read_accel_range (lines 228-250)
read_accel_range_ret(rg, raw) ==
    LET raw_data == read_byte_data(rg, ACCEL_CONFIG)
    IN  IF raw THEN PyInt(raw_data)
        ELSE IF raw_data = ACCEL_RANGE_2G THEN PyInt(2)
        ELSE IF raw_data = ACCEL_RANGE_4G THEN PyInt(4)
        ELSE IF raw_data = ACCEL_RANGE_8G THEN PyInt(8)
        ELSE IF raw_data = ACCEL_RANGE_16G THEN PyInt(16)
        ELSE PyInt(-1)

\* the scale modifier with the unknown range falling back to the 16g one
accel_scale_modifier_16g(accel_range) ==
    IF accel_range = ACCEL_RANGE_2G THEN ACCEL_SCALE_MODIFIER_2G
    ELSE IF accel_range = ACCEL_RANGE_4G THEN ACCEL_SCALE_MODIFIER_4G
    ELSE IF accel_range = ACCEL_RANGE_8G THEN ACCEL_SCALE_MODIFIER_8G
    ELSE ACCEL_SCALE_MODIFIER_16G

\* get_accel_data, lines 263-276: the scale modifier of a raw range byte
accel_scale_modifier(accel_range) ==
    IF accel_range = ACCEL_RANGE_2G THEN ACCEL_SCALE_MODIFIER_2G
    ELSE IF accel_range = ACCEL_RANGE_4G THEN ACCEL_SCALE_MODIFIER_4G
    ELSE IF accel_range = ACCEL_RANGE_8G THEN ACCEL_SCALE_MODIFIER_8G
    ELSE IF accel_range = ACCEL_RANGE_16G THEN ACCEL_SCALE_MODIFIER_16G
    ELSE ACCEL_SCALE_MODIFIER_2G   \* after print("Unkown range ...")

\* get_accel_data (lines 252-288)
get_accel_data_ret(rg, g) ==
    LET x == read_i2c_word(rg, ACCEL_XOUT0)
        y == read_i2c_word(rg, ACCEL_YOUT0)
        z == read_i2c_word(rg, ACCEL_ZOUT0)
        m == accel_scale_modifier(read_accel_range_ret(rg, TRUE)[2])
        unit == IF g THEN "g" ELSE "ms2"
    IN  <<"dict", Frac(x, m, unit), Frac(y, m, unit), Frac(z, m, unit)>>

set_accel_range(accel_range) ==
    /\ pc = "ready" /\ Idle
    /\ regs' = set_accel_range_regs(regs, accel_range)
    /\ range_set' = accel_range
    /\ call' = Returned("set_accel_range", <<accel_range>>, None)
    /\ UNCHANGED <<pc, sleep_req>>

read_accel_range(raw) ==
    /\ pc = "ready" /\ Idle /\ Reads
    /\ call' = Returned("read_accel_range", <<raw>>, read_accel_range_ret(regs, raw))

get_accel_data(g) ==
    /\ pc = "ready" /\ Idle /\ Reads
    /\ call' = Returned("get_accel_data", <<g>>, get_accel_data_ret(regs, g))

\* the pre-defined ranges (lines 77-81)
PredefinedRanges == {ACCEL_RANGE_2G, ACCEL_RANGE_4G, ACCEL_RANGE_8G, ACCEL_RANGE_16G}

InitAccel ==
    /\ pc = "ready"
    /\ \E c \in Byte, x \in SampleWords, y \in SampleWords, z \in SampleWords :
         regs = [ZeroRegs EXCEPT ![ACCEL_CONFIG] = c,
                    ![ACCEL_XOUT0] = x[1], ![ACCEL_XOUT0 + 1] = x[2],
                    ![ACCEL_YOUT0] = y[1], ![ACCEL_YOUT0 + 1] = y[2],
                    ![ACCEL_ZOUT0] = z[1], ![ACCEL_ZOUT0 + 1] = z[2]]
    /\ InitCommon

NextAccel ==
    \/ \E accel_range \in PredefinedRanges \cup SampleBytes :
         set_accel_range(accel_range)
    \/ \E raw \in BOOLEAN : read_accel_range(raw)
    \/ \E g \in BOOLEAN : get_accel_data(g)

SpecAccel == InitAccel /\ [][NextAccel]_vars

\* C6: once set_accel_range(X) has completed for a pre-defined range X and
\* nothing else has written ACCEL_CONFIG, read_accel_range(raw=True) returns
\* the raw byte of X and read_accel_range(raw=False) the number 2, 4, 8 or 16
\* of that range.
C6_RangeRoundTrip ==
    (call.op = "read_accel_range" /\ range_set \in PredefinedRanges) =>
        /\ call.err = "none"
        /\ call.args[1] => call.ret = PyInt(range_set)
        /\ ~call.args[1] =>
              call.ret = PyInt(CASE range_set = 0 -> 2 [] range_set = 8 -> 4
                                 [] range_set = 16 -> 8 [] range_set = 24 -> 16)

\* set_accel_range(16g) then read_accel_range(raw=False) has returned 16
C6_Witness ==
    /\ call.op = "read_accel_range" /\ range_set = ACCEL_RANGE_16G
    /\ call.args = <<FALSE>> /\ call.ret = PyInt(16)

\* C9: with ACCEL_CONFIG holding none of 0x00, 0x08, 0x10, 0x18, get_accel_data
\* raises nothing and returns the three words divided by 16384, the result it
\* returns for the same words when ACCEL_CONFIG holds 0x00.
C9_UnknownRangeFallsBackTo2G ==
    (call.op = "get_accel_data" /\ regs[ACCEL_CONFIG] \notin PredefinedRanges) =>
        LET unit == IF call.args[1] THEN "g" ELSE "ms2"
            word(r) == LET v == regs[r] * 256 + regs[r + 1]
                       IN  IF v < 32768 THEN v ELSE v - 65536
        IN  /\ call.err = "none"
            /\ call.ret = <<"dict", Frac(word(ACCEL_XOUT0), 16384, unit),
                                    Frac(word(ACCEL_YOUT0), 16384, unit),
                                    Frac(word(ACCEL_ZOUT0), 16384, unit)>>
            /\ call.ret = get_accel_data_ret(
                              [regs EXCEPT ![ACCEL_CONFIG] = ACCEL_RANGE_2G],
                              call.args[1])

\* get_accel_data(g=True) under the unknown range byte 0x01 has returned 1 g
\* on the x axis for the raw word 16384
C9_Witness ==
    /\ call.op = "get_accel_data" /\ regs[ACCEL_CONFIG] = 1
    /\ regs[ACCEL_XOUT0] = 64 /\ regs[ACCEL_XOUT0 + 1] = 0
    /\ call.args = <<TRUE>> /\ call.ret[2] = <<1, 1, "g">>

(***************************************************************************)
(* Bit and bit-field access to one register                                *)
(***************************************************************************)
\* read_i2c_bits (lines 149-161): the method falls off its end, returning
\* None, when the byte read is 0
read_i2c_bits(rg, register, bitStart, length) ==
    LET data == read_i2c_byte(rg, register)
    IN  IF data # 0
        THEN LET mask == Shl(Shl(1, length) - 1, bitStart - length + 1)
             IN  PyInt(Shr(BitAnd(data, mask), bitStart - length + 1))
        ELSE None

\* write_i2c_bit, lines 183-186: the byte built from the byte data read; the
\* branch tests data, not value
write_i2c_bit_byte(data, bitNum, value) ==
    IF data # 0
    THEN BitOr(data, Shl(1, bitNum))
    ELSE BitAndNot(data, Shl(1, bitNum))

\* write_i2c_bit (lines 181-187)
write_i2c_bit(rg, register, bitNum, value) ==
    write_byte_data(rg, register,
        write_i2c_bit_byte(read_i2c_byte(rg, register), bitNum, value))

\* write_i2c_bits, lines 193-197: the byte built from the byte b read
write_i2c_bits_byte(b, bitStart, length, data) ==
    LET mask == Shl(Shl(1, length) - 1, bitStart - length + 1)
        field == BitAnd(Shl(data, bitStart - length + 1), mask)
    IN  BitOr(BitAndNot(b, mask), field)

\* write_i2c_bits (lines 190-198): b is read from the register numbered
\* self.address; nothing is written when data is 0
write_i2c_bits(rg, register, bitStart, length, data) ==
    LET b == read_i2c_byte(rg, address)
    IN  IF data # 0
        THEN write_byte_data(rg, register,
                             write_i2c_bits_byte(b, bitStart, length, data))
        ELSE rg

\* the history variables after a call that writes (or may write) register
Writes(register) ==
    /\ range_set' = IF register = ACCEL_CONFIG THEN -1 ELSE range_set
    /\ sleep_req' = IF register = PWR_MGMT_1 THEN "unset" ELSE sleep_req
    /\ UNCHANGED pc

read_i2c_bit_call(register, bitNum) ==
    /\ pc = "ready" /\ Idle /\ Reads
    /\ call' = Returned("read_i2c_bit", <<register, bitNum>>,
                        PyInt(read_i2c_bit(regs, register, bitNum)))

read_i2c_bits_call(register, bitStart, length) ==
    /\ pc = "ready" /\ Idle /\ Reads
    /\ call' = Returned("read_i2c_bits", <<register, bitStart, length>>,
                        read_i2c_bits(regs, register, bitStart, length))

write_i2c_bit_call(register, bitNum, value) ==
    /\ pc = "ready" /\ Idle /\ Writes(register)
    /\ regs' = write_i2c_bit(regs, register, bitNum, value)
    /\ call' = Returned("write_i2c_bit", <<register, bitNum, value>>, None)

write_i2c_bits_call(register, bitStart, length, data) ==
    /\ pc = "ready" /\ Idle /\ Writes(register)
    /\ regs' = write_i2c_bits(regs, register, bitStart, length, data)
    /\ call' = Returned("write_i2c_bits", <<register, bitStart, length, data>>, None)

\* the bit-fields of a byte: length <= bitStart + 1 <= 8, length >= 1
Fields == { f \in (0..7) \X (1..8) : f[2] <= f[1] + 1 }

\* the data written to a field of the given length: its extremes and the
\* values up to MaxData
FieldData(length) ==
    {0, Pow2(length) - 1} \cup { d \in 0..MaxData : d < Pow2(length) }

InitRegister(bytes, others) ==
    /\ pc = "ready"
    /\ \E b \in bytes, a \in others :
         regs = [ZeroRegs EXCEPT ![PWR_MGMT_1] = b, ![address] = a]
    /\ InitCommon

\* reads of bits and fields, over every content of the register
InitReadBits == InitRegister(Byte, {0})

NextReadBits ==
    \/ \E bitNum \in 0..7 : read_i2c_bit_call(PWR_MGMT_1, bitNum)
    \/ \E f \in Fields : read_i2c_bits_call(PWR_MGMT_1, f[1], f[2])

SpecReadBits == InitReadBits /\ [][NextReadBits]_vars

\* writes of single bits, over every content of the register
InitWriteBit == InitRegister(Byte, {0})

NextWriteBit ==
    \/ \E bitNum \in 0..7 : read_i2c_bit_call(PWR_MGMT_1, bitNum)
    \/ \E bitNum \in 0..7, value \in BOOLEAN :
         write_i2c_bit_call(PWR_MGMT_1, bitNum, value)

SpecWriteBit == InitWriteBit /\ [][NextWriteBit]_vars

\* writes and reads of fields
InitWriteBits == InitRegister(SampleBytes, SampleBytes)

NextWriteBits ==
    \/ \E f \in Fields : read_i2c_bits_call(PWR_MGMT_1, f[1], f[2])
    \/ \E f \in Fields : \E data \in FieldData(f[2]) :
         write_i2c_bits_call(PWR_MGMT_1, f[1], f[2], data)

SpecWriteBits == InitWriteBits /\ [][NextWriteBits]_vars

\* C2: write_i2c_bit(register, bitNum, value) writes back a byte whose bit
\* bitNum is value and whose other seven bits are those of the byte before.
C2_WriteBitSetsOneBit ==
    [][call'.op = "write_i2c_bit" =>
         LET r == call'.args[1]
             n == call'.args[2]
         IN  /\ Bit(regs'[r], n) = (IF call'.args[3] THEN 1 ELSE 0)
             /\ \A i \in (0..7) \ {n} : Bit(regs'[r], i) = Bit(regs[r], i)]_vars

\* C3: write_i2c_bits(register, bitStart, length, data) leaves the bits
\* outside the field as they were, and read_i2c_bits(register, bitStart,
\* length) right after it returns data.
C3_FieldRoundTrip ==
    [][/\ call'.op = "write_i2c_bits" =>
            LET r == call'.args[1]
                lo == call'.args[2] - call'.args[3] + 1
            IN  \A i \in (0..7) \ (lo .. call'.args[2]) :
                    Bit(regs'[r], i) = Bit(regs[r], i)
       /\ (/\ call.op = "write_i2c_bits" /\ call'.op = "read_i2c_bits"
           /\ call'.args = SubSeq(call.args, 1, 3)) =>
            call'.ret = PyInt(call.args[4])]_vars

\* C4: read_i2c_bits returns the number (byte & mask) >> (bitStart-length+1),
\* mask = ((1<<length)-1) << (bitStart-length+1), for every byte, 0 included.
C4_ReadBitsExtractsField ==
    call.op = "read_i2c_bits" =>
        LET byte == regs[call.args[1]]
            lo == call.args[2] - call.args[3] + 1
        IN  /\ call.err = "none"
            /\ call.ret = PyInt((byte \div Pow2(lo)) % Pow2(call.args[3]))

(***************************************************************************)
(* Power management                                                        *)
(***************************************************************************)
\* the positional arguments (after self) the bus methods take
MethodArity == [read_i2c_bit |-> 2, read_i2c_bits |-> 3,
                write_i2c_bit |-> 3, write_i2c_bits |-> 4]

\* __init__ (lines 122-126): the handle is made and 0x00 written to PWR_MGMT_1
construct ==
    /\ pc = "off" /\ Idle
    /\ pc' = "ready"
    /\ regs' = write_byte_data(regs, PWR_MGMT_1, 0)
    /\ call' = Returned("__init__", <<address>>, None)
    /\ sleep_req' = "unset"
    /\ UNCHANGED range_set

\* reset (lines 408-412): writes 0x01
reset ==
    /\ pc = "ready" /\ Idle
    /\ regs' = write_byte_data(regs, PWR_MGMT_1, 1)
    /\ call' = Returned("reset", <<>>, None)
    /\ sleep_req' = "unset"
    /\ UNCHANGED <<pc, range_set>>

\* get_sleep_enabled (lines 414-418): self.PWR_1_SLEEP_BIT is no attribute
get_sleep_enabled ==
    /\ pc = "ready" /\ Idle /\ Reads
    /\ "PWR_1_SLEEP_BIT" \notin ClassAttributes
    /\ call' = Raised("get_sleep_enabled", <<>>, "AttributeError")

\* set_sleep_enabled (lines 420-424): self.PWR1_SLEEP_BIT is no attribute, so
\* the arguments of write_i2c_bit are never all evaluated and nothing is written
set_sleep_enabled(enabled) ==
    /\ pc = "ready" /\ Idle
    /\ "PWR1_SLEEP_BIT" \notin ClassAttributes
    /\ call' = Raised("set_sleep_enabled", <<enabled>>, "AttributeError")
    /\ sleep_req' = IF enabled THEN "sleep" ELSE "wake"
    /\ UNCHANGED <<pc, regs, range_set>>

\* get_wake_cycle_enabled (lines 426-430): self.PWR_1_CYCLE_BIT is no attribute
get_wake_cycle_enabled ==
    /\ pc = "ready" /\ Idle /\ Reads
    /\ "PWR_1_CYCLE_BIT" \notin ClassAttributes
    /\ call' = Raised("get_wake_cycle_enabled", <<>>, "AttributeError")

\* set_wake_cycle_enabled (lines 432-436): self.PWR_1_CYCLE_BIT is no attribute
set_wake_cycle_enabled(enabled) ==
    /\ pc = "ready" /\ Idle /\ Reads
    /\ "PWR_1_CYCLE_BIT" \notin ClassAttributes
    /\ call' = Raised("set_wake_cycle_enabled", <<enabled>>, "AttributeError")

\* get_temp_sensor_enabled (lines 439-447)
get_temp_sensor_enabled ==
    /\ pc = "ready" /\ Idle /\ Reads
    /\ {"PWR_MGMT_1", "PWR1_TEMP_DIS_BIT"} \subseteq ClassAttributes
    /\ call' = Returned("get_temp_sensor_enabled", <<>>,
                 PyBool(read_i2c_bit(regs, PWR_MGMT_1, PWR1_TEMP_DIS_BIT) = 0))

\* set_temp_sensor_enabled (lines 450-458): self.PWR_1_TEMP_DIS_BIT is no
\* attribute
set_temp_sensor_enabled(enabled) ==
    /\ pc = "ready" /\ Idle /\ Reads
    /\ "PWR_1_TEMP_DIS_BIT" \notin ClassAttributes
    /\ call' = Raised("set_temp_sensor_enabled", <<enabled>>, "AttributeError")

\* get_clock_source (lines 460-464): every attribute exists, and read_i2c_bits
\* is given four arguments
get_clock_source ==
    /\ pc = "ready" /\ Idle /\ Reads
    /\ {"address", "PWR_MGMT_1", "PWR1_CLKSEL_BIT", "PWR1_CLKSEL_LENGTH"}
           \subseteq ClassAttributes
    /\ MethodArity.read_i2c_bits # 4
    /\ call' = Raised("get_clock_source", <<>>, "TypeError")

\* power-up: the device sleeps (the sleep bit of PWR_MGMT_1 is set)
InitPower ==
    /\ pc = "off"
    /\ regs = [ZeroRegs EXCEPT ![PWR_MGMT_1] = Shl(1, PWR1_DEVICE_SLEEP_BIT)]
    /\ InitCommon

NextPower ==
    \/ construct
    \/ reset
    \/ get_sleep_enabled
    \/ \E enabled \in BOOLEAN : set_sleep_enabled(enabled)
    \/ get_wake_cycle_enabled
    \/ \E enabled \in BOOLEAN : set_wake_cycle_enabled(enabled)
    \/ get_temp_sensor_enabled
    \/ \E enabled \in BOOLEAN : set_temp_sensor_enabled(enabled)
    \/ get_clock_source
    \/ \E bitNum \in 0..7 : read_i2c_bit_call(PWR_MGMT_1, bitNum)
    \/ \E bitNum \in 0..7, value \in BOOLEAN :
         write_i2c_bit_call(PWR_MGMT_1, bitNum, value)

SpecPower == InitPower /\ [][NextPower]_vars

\* a Python value taken as a condition
Truthy(v) == \/ v[1] = "int" /\ v[2] # 0
             \/ v[1] = "bool" /\ v[2]

\* C5: set_temp_sensor_enabled(True) completes and leaves bit 3 of PWR_MGMT_1
\* at 0, set_temp_sensor_enabled(False) completes and leaves it at 1, and
\* get_temp_sensor_enabled() returns true exactly when that bit is 0.
C5_TempSensorEnabled ==
    /\ call.op = "set_temp_sensor_enabled" =>
          /\ call.err = "none"
          /\ Bit(regs[PWR_MGMT_1], PWR1_TEMP_DIS_BIT)
                = (IF call.args[1] THEN 0 ELSE 1)
    /\ call.op = "get_temp_sensor_enabled" =>
          /\ call.err = "none"
          /\ Truthy(call.ret) <=> Bit(regs[PWR_MGMT_1], PWR1_TEMP_DIS_BIT) = 0

\* C7: after reset() the byte in PWR_MGMT_1 has the device-reset bit, bit 7,
\* equal to 1.
C7_ResetSetsResetBit ==
    call.op = "reset" => Bit(regs[PWR_MGMT_1], PWR1_DEVICE_RESET_BIT) = 1

\* C8: the device powers up asleep; construction writes 0x00 to PWR_MGMT_1 and
\* wakes it; from then on, while only set_sleep_enabled and get_sleep_enabled
\* have written or read the register, the sleep bit (bit 6) is set exactly
\* when the last set_sleep_enabled passed true, and get_sleep_enabled
\* completes and reports it.
C8_SleepFollowsLastSet ==
    /\ pc = "off" => Bit(regs[PWR_MGMT_1], PWR1_DEVICE_SLEEP_BIT) = 1
    /\ call.op = "__init__" => (pc = "ready" /\ regs[PWR_MGMT_1] = 0)
    /\ sleep_req # "unset" =>
          (Bit(regs[PWR_MGMT_1], PWR1_DEVICE_SLEEP_BIT) = 1
              <=> sleep_req = "sleep")
    /\ call.op = "get_sleep_enabled" =>
          /\ call.err = "none"
          /\ Truthy(call.ret)
                <=> Bit(regs[PWR_MGMT_1], PWR1_DEVICE_SLEEP_BIT) = 1

(***************************************************************************)
(* Two callers sharing the handle with no lock: each runs one              *)
(* read-modify-write on PWR_MGMT_1, and the bus transactions interleave.   *)
(***************************************************************************)
Requests ==
    { BitReq(n, v) : n \in 0..7, v \in BOOLEAN }
      \cup UNION { { BitsReq(f[1], f[2], d) : d \in FieldData(f[2]) } :
                   f \in { g \in Fields : g[2] <= MaxFieldLen } }

\* the bus read that opens the method (line 182, line 191)
CallerRead(c, req) ==
    /\ pc = "ready" /\ cpc[c] = "idle"
    /\ cdata' = [cdata EXCEPT ![c] =
                    IF req.op = "write_i2c_bit"
                    THEN read_i2c_byte(regs, PWR_MGMT_1)
                    ELSE read_i2c_byte(regs, address)]
    /\ creq' = [creq EXCEPT ![c] = req]
    /\ cpc' = [cpc EXCEPT ![c] = "read"]
    /\ order' = Append(order, <<c, "read">>)
    /\ UNCHANGED <<pc, regs, call, range_set, sleep_req>>

\* whether the method reaches its bus write
CallerWrites(req) == req.op = "write_i2c_bit" \/ req.data # 0

\* the byte the method writes, from the byte it read
CallerByte(req, data) ==
    IF req.op = "write_i2c_bit"
    THEN write_i2c_bit_byte(data, req.hi, req.value)
    ELSE write_i2c_bits_byte(data, req.hi, req.len, req.data)

\* the rest of the method (lines 183-187, lines 192-198)
CallerWrite(c) ==
    /\ cpc[c] = "read"
    /\ regs' = IF CallerWrites(creq[c])
               THEN write_byte_data(regs, PWR_MGMT_1,
                                    CallerByte(creq[c], cdata[c]))
               ELSE regs
    /\ order' = Append(order,
                    <<c, IF CallerWrites(creq[c]) THEN "write" ELSE "return">>)
    /\ cpc' = [cpc EXCEPT ![c] = "done"]
    /\ UNCHANGED <<pc, call, range_set, sleep_req, creq, cdata>>

InitRace == InitRegister(SampleBytes, SampleBytes)

NextRace ==
    \/ \E c \in {1, 2} : \E req \in Requests : CallerRead(c, req)
    \/ \E c \in {1, 2} : CallerWrite(c)

SpecRace == InitRace /\ [][NextRace]_vars

\* the change a request asks for is in the byte
Present(req, byte) ==
    (byte \div Pow2(req.hi - req.len + 1)) % Pow2(req.len)
        = (IF req.op = "write_i2c_bit"
           THEN (IF req.value THEN 1 ELSE 0)
           ELSE req.data)

\* two requests touch no common bit
Disjoint(p, q) == p.hi < q.hi - q.len + 1 \/ q.hi < p.hi - p.len + 1

\* C10: with both calls finished: when the second caller's write landed
\* between the first caller's read and write, the register holds the byte
\* the first caller built from what it had read (the last write wins on the
\* whole byte); when the calls ran one after the other, the change of each is
\* in the register (the earlier one's as far as the later did not rewrite it).
C10_LostUpdateOnlyWhenInterleaved ==
    (\A c \in {1, 2} : cpc[c] = "done") =>
        LET first == order[1][1]
            second == 3 - first
        IN  /\ (order[3] = <<second, "write">> /\ order[4] = <<first, "write">>)
                  => regs[PWR_MGMT_1] = CallerByte(creq[first], cdata[first])
            /\ order[2][1] = first =>
                  /\ Present(creq[second], regs[PWR_MGMT_1])
                  /\ Disjoint(creq[first], creq[second])
                        => Present(creq[first], regs[PWR_MGMT_1])

\* C10, the interleaving it speaks of: the second caller's write put its
\* change into the register, the first caller's later write removed it
C10_LostUpdate ==
    /\ \A c \in {1, 2} : cpc[c] = "done"
    /\ LET first == order[1][1]
           second == 3 - first
       IN  /\ order[3] = <<second, "write">> /\ order[4] = <<first, "write">>
           /\ Disjoint(creq[first], creq[second])
           /\ Present(creq[second], CallerByte(creq[second], cdata[second]))
           /\ ~Present(creq[second], regs[PWR_MGMT_1])
====
